---- MODULE Spec2Model ----
(***************************************************************************)
(* Model of VTIL-Common/util/type_helpers.hpp.                             *)
(*                                                                         *)
(* Three specifications are defined over one set of variables:             *)
(*   SpecStatic : impl::static_allocator / make_static / make_default,     *)
(*                together with the C++ initialization of the static data  *)
(*                member `value` (program start-up, main, exit);           *)
(*   SpecValue  : null_value / Nullable / possess_value applied to one     *)
(*                variable of a type described by its traits;              *)
(*   SpecEval   : is_constexpr and make_expanded_series applied to a       *)
(*                callable.                                                *)
(***************************************************************************)
EXTENDS Integers, Sequences, FiniteSets, TLC

VARIABLES
    \* --- static allocator -------------------------------------------------
    phase,      \* "startup" (dynamic initialization), "main", "exited"
    deferred,   \* implementation-defined: dynamic init of the inline variable deferred past main's start
    initState,  \* per (T,params) key: state of static_allocator<T,params...>::value
    ctorCount,  \* per key: how many times T's constructor ran on `value`
    ret,        \* per thread: what its last make_static/make_default call returned
    \* --- null_value / possess_value ---------------------------------------
    tp,         \* traits of the type T of the variable
    val,        \* current state of the variable v / ref
    prior,      \* state of the variable before the last operation
    lastOp,     \* last operation applied to the variable
    out,        \* what the last operation returned
    dest,       \* object the caller constructed from the returned value
    moveCtorCalls, \* number of invocations of T's move constructor on v
    \* --- is_constexpr / make_expanded_series ------------------------------
    fn,         \* the zero-argument callable handed to is_constexpr
    gen,        \* the callable over an index handed to make_expanded_series
    N,          \* series length requested
    res,        \* result of the last evaluation
    calls       \* indices gen was invoked with, in order

staticVars == <<phase, deferred, initState, ctorCount, ret>>
valueVars  == <<tp, val, prior, lastOp, out, dest, moveCtorCalls>>
evalVars   == <<fn, gen, N, res, calls>>
vars       == <<phase, deferred, initState, ctorCount, ret,
                tp, val, prior, lastOp, out, dest, moveCtorCalls,
                fn, gen, N, res, calls>>

-----------------------------------------------------------------------------
(* Bounds *)

NumTypes   == 2     \* types T requested from the static allocator
MaxParam   == 1     \* compile-time parameter lists << >>, <<1>> .. <<MaxParam>>
NumThreads == 2     \* threads (or initializers) issuing requests
MaxVal     == 2     \* values a variable can hold: 0..MaxVal
MaxN       == 3     \* largest series length

-----------------------------------------------------------------------------
(* Static value materialization                                            *)

Types      == 1 .. NumTypes
\* The specializations the program instantiates: every type with the empty
\* parameter list, and the first type with each one-parameter list.
Keys       == { <<T, << >> >> : T \in Types } \cup { <<1, <<p>> >> : p \in 1 .. MaxParam }
Threads    == 1 .. NumThreads

NoRet == [key |-> << >>, addr |-> 0, state |-> "none", phase |-> "none"]

\* Variant: one `value` per type T, shared by all parameter lists.
static_allocator_value_per_type(T, params) == T

\* Every specialization static_allocator<T, params...> owns its own inline
\* static data member `value`; its address is fixed by the specialization.
static_allocator_value(T, params) ==
    (T - 1) * (MaxParam + 1) + (IF params = << >> THEN 0 ELSE params[1]) + 1

\* make_static<T, params...>() returns a reference to that member, nothing else.
make_static(T, params) == static_allocator_value(T, params)

\* make_default<T>() is make_static<T>() with the empty parameter list.
make_default(T) == make_static(T, << >>)

InitStatic ==
    /\ phase = "startup"
    /\ deferred \in BOOLEAN
       \* a type whose initializer is a constant expression is constant-initialized:
       \* its instance exists, constructed, before any code runs
    /\ \E ci \in [Types -> BOOLEAN] :
          /\ initState = [k \in Keys |-> IF ci[k[1]] THEN "constructed" ELSE "zeroed"]
          /\ ctorCount = [k \in Keys |-> IF ci[k[1]] THEN 1 ELSE 0]
    /\ ret = [t \in Threads |-> NoRet]

\* What a caller that follows the returned reference finds there.
Observed(k) == IF initState[k] = "constructed" THEN "constructed" ELSE "unconstructed"

NoInitRunning == \A k \in Keys : initState[k] # "constructing"

\* The dynamic initializer of static_allocator<T,params...>::value starts.
\* Initialization of a template specialization's static member is unordered
\* with respect to every other initializer; initializers run one at a time.
BeginInit(k) ==
    /\ phase = "startup" \/ (phase = "main" /\ deferred)
    /\ initState[k] = "zeroed"
    /\ NoInitRunning
    /\ initState' = [initState EXCEPT ![k] = "constructing"]
    /\ ctorCount' = [ctorCount EXCEPT ![k] = @ + 1]
    /\ UNCHANGED <<phase, deferred, ret, valueVars, evalVars>>

\* The constructor T{ params... } returns.
EndInit(k) ==
    /\ initState[k] = "constructing"
    /\ initState' = [initState EXCEPT ![k] = "constructed"]
    /\ UNCHANGED <<phase, deferred, ctorCount, ret, valueVars, evalVars>>

\* Control reaches main.  Unless the implementation defers it, all dynamic
\* initialization is sequenced before the first statement of main.
EnterMain ==
    /\ phase = "startup"
    /\ NoInitRunning
    /\ deferred \/ \A k \in Keys : initState[k] = "constructed"
    /\ phase' = "main"
    /\ UNCHANGED <<deferred, initState, ctorCount, ret, valueVars, evalVars>>

\* Variant: a use in main is not ordered after a deferred initialization.
MakeStatic_unordered(t, T, params) ==
    LET k == <<T, params>> IN
    /\ phase \in {"startup", "main"}
    /\ ret' = [ret EXCEPT ![t] = [key |-> k, addr |-> make_static(T, params),
                                  state |-> Observed(k), phase |-> phase]]
    /\ UNCHANGED <<phase, deferred, initState, ctorCount, valueVars, evalVars>>

\* Variant: `value` is a function-local static, constructed by the first call.
MakeStatic_lazy(t, T, params) ==
    LET k == <<T, params>> IN
    /\ phase \in {"startup", "main"}
    /\ NoInitRunning
    /\ initState' = [initState EXCEPT ![k] = "constructed"]
    /\ ctorCount' = [ctorCount EXCEPT ![k] = IF initState[k] = "zeroed" THEN @ + 1 ELSE @]
    /\ ret' = [ret EXCEPT ![t] = [key |-> k, addr |-> make_static(T, params),
                                  state |-> "constructed", phase |-> phase]]
    /\ UNCHANGED <<phase, deferred, valueVars, evalVars>>

\* A call of make_static<T, params...>() by thread t.  During start-up the
\* caller is the initializer of some other static object (or a thread it
\* started).  In main, a deferred initialization strongly happens before the
\* use, so the caller finds the instance constructed.
MakeStatic(t, T, params) ==
    LET k == <<T, params>> IN
    /\ phase \in {"startup", "main"}
    /\ phase = "main" => initState[k] = "constructed"
    /\ ret' = [ret EXCEPT ![t] = [key |-> k, addr |-> make_static(T, params),
                                  state |-> Observed(k), phase |-> phase]]
    /\ UNCHANGED <<phase, deferred, initState, ctorCount, valueVars, evalVars>>

\* A call of make_default<T>() by thread t.
MakeDefault(t, T) ==
    LET k == <<T, << >> >> IN
    /\ phase \in {"startup", "main"}
    /\ phase = "main" => initState[k] = "constructed"
    /\ ret' = [ret EXCEPT ![t] = [key |-> k, addr |-> make_default(T),
                                  state |-> Observed(k), phase |-> phase]]
    /\ UNCHANGED <<phase, deferred, initState, ctorCount, valueVars, evalVars>>

\* main returns / exit is called: objects of static storage duration are destroyed.
Exit ==
    /\ phase = "main"
    /\ NoInitRunning
    /\ phase' = "exited"
    /\ initState' = [k \in Keys |-> IF initState[k] = "constructed" THEN "destroyed"
                                    ELSE initState[k]]
    /\ UNCHANGED <<deferred, ctorCount, ret, valueVars, evalVars>>

NextStatic ==
    \/ \E k \in Keys : BeginInit(k)
    \/ \E k \in Keys : EndInit(k)
    \/ EnterMain
    \/ \E t \in Threads, k \in Keys : MakeStatic(t, k[1], k[2])
    \/ \E t \in Threads, T \in Types : MakeDefault(t, T)
    \/ Exit


-----------------------------------------------------------------------------
(* Generic reset and move-and-invalidate                                   *)

\* An object state: a held value n, or the state a named operation leaves.
Held(n)   == [st |-> "held", n |-> n]
Tag(name) == [st |-> name, n |-> 0]
NoValue   == [st |-> "nothing", n |-> 0]

CtorArgs == {"void", "nullptr_t", "nullopt_t", "int8_t", "uint8_t"}

\* A type T is described by the traits and concepts the header inspects.
\* Scalar types have their fixed traits; class types range over every
\* combination of traits a well-formed class can have.
ScalarType(k) ==
    [kind |-> k, CustomResettable |-> FALSE, CustomClearable |-> FALSE,
     is_move_assignable |-> TRUE, is_copy_assignable |-> TRUE,
     ctors |-> IF k = "pointer" THEN {"void", "nullptr_t"} ELSE {"void", "int8_t", "uint8_t"},
     is_trivially_move_constructible |-> TRUE, is_move_constructible |-> TRUE,
     is_copy_constructible |-> TRUE, user_move_ctor |-> FALSE]

ClassTypes ==
    { t \in [kind : {"class"}, CustomResettable : BOOLEAN, CustomClearable : BOOLEAN,
             is_move_assignable : BOOLEAN, is_copy_assignable : BOOLEAN,
             ctors : SUBSET CtorArgs,
             is_trivially_move_constructible : BOOLEAN, is_move_constructible : BOOLEAN,
             is_copy_constructible : BOOLEAN, user_move_ctor : BOOLEAN] :
        \* a copy assignment operator also accepts rvalues
        /\ t.is_copy_assignable => t.is_move_assignable
        /\ t.is_trivially_move_constructible => t.is_move_constructible
        \* a class with its own move constructor is move constructible, not trivially
        /\ t.user_move_ctor => t.is_move_constructible /\ ~t.is_trivially_move_constructible }

TypeTraits == { ScalarType(k) : k \in {"integral", "floating", "pointer"} } \cup ClassTypes

is_integral(t)       == t.kind = "integral"
is_floating_point(t) == t.kind = "floating"
is_arithmetic(t)     == t.kind \in {"integral", "floating"}
is_pointer(t)        == t.kind = "pointer"

\* concept Constructable<T, Args...> = requires { T( declval<Args>()... ); }
Constructable(t, arg) == arg \in t.ctors

ValuesOf(t) ==
    IF t.kind = "class" THEN { Held(n) : n \in 1 .. MaxVal }
    ELSE { Held(n) : n \in 0 .. MaxVal }

Applied(mech, newref) == [mech |-> mech, ref |-> newref, ret |-> "true"]

\* Variant: clear() is tried before reset().
null_value_clear_first(t, ref) ==
    IF is_arithmetic(t)         THEN Applied("assign_zero", Held(0))
    ELSE IF is_pointer(t)       THEN Applied("assign_nullptr", Held(0))
    ELSE IF t.CustomClearable   THEN Applied("clear", Tag("clear"))
    ELSE IF t.CustomResettable  THEN Applied("reset", Tag("reset"))
    ELSE IF t.is_move_assignable \/ t.is_copy_assignable THEN
        IF Constructable(t, "void")           THEN Applied("assign_T()", Tag("T()"))
        ELSE IF Constructable(t, "nullptr_t") THEN Applied("assign_T(nullptr)", Tag("T(nullptr)"))
        ELSE IF Constructable(t, "nullopt_t") THEN Applied("assign_T(nullopt)", Tag("T(nullopt)"))
        ELSE IF Constructable(t, "int8_t")    THEN Applied("assign_T(int8_t 0)", Tag("T(int8_t 0)"))
        ELSE IF Constructable(t, "uint8_t")   THEN Applied("assign_T(uint8_t 0)", Tag("T(uint8_t 0)"))
        ELSE [mech |-> "none", ref |-> ref, ret |-> "void"]
    ELSE [mech |-> "none", ref |-> ref, ret |-> "void"]

\* null_value( T& ref ): what was done, the new state of ref, and the value
\* returned ("void" when control falls off the end: the return type is void).
null_value(t, ref) ==
    IF is_arithmetic(t)         THEN Applied("assign_zero", Held(0))
    ELSE IF is_pointer(t)       THEN Applied("assign_nullptr", Held(0))
    ELSE IF t.CustomResettable  THEN Applied("reset", Tag("reset"))
    ELSE IF t.CustomClearable   THEN Applied("clear", Tag("clear"))
    ELSE IF t.is_move_assignable \/ t.is_copy_assignable THEN
        IF Constructable(t, "void")           THEN Applied("assign_T()", Tag("T()"))
        ELSE IF Constructable(t, "nullptr_t") THEN Applied("assign_T(nullptr)", Tag("T(nullptr)"))
        ELSE IF Constructable(t, "nullopt_t") THEN Applied("assign_T(nullopt)", Tag("T(nullopt)"))
        ELSE IF Constructable(t, "int8_t")    THEN Applied("assign_T(int8_t 0)", Tag("T(int8_t 0)"))
        ELSE IF Constructable(t, "uint8_t")   THEN Applied("assign_T(uint8_t 0)", Tag("T(uint8_t 0)"))
        ELSE [mech |-> "none", ref |-> ref, ret |-> "void"]
    ELSE [mech |-> "none", ref |-> ref, ret |-> "void"]

\* Variant: the negation is missing.
Nullable_is_void(t) == null_value(t, NoValue).ret = "void"

\* concept Nullable = !is_void_v< decltype( null_value<T>( declval<T&>() ) ) >
Nullable(t) == ~(null_value(t, NoValue).ret = "void")

\* Variant: scalars are copied out and not exchanged with zero.
possess_value_no_exchange(t, v) ==
    IF is_integral(t) \/ is_floating_point(t) \/ is_pointer(t)
        THEN [kind |-> "prvalue", value |-> v, v |-> v]
    ELSE IF t.is_trivially_move_constructible
        THEN [kind |-> "prvalue", value |-> v, v |-> null_value(t, v).ref]
    ELSE IF t.is_move_constructible
        THEN [kind |-> "xvalue", value |-> NoValue, v |-> v]
    ELSE IF t.is_copy_constructible
        THEN [kind |-> "prvalue", value |-> v, v |-> null_value(t, v).ref]
    ELSE [kind |-> "void", value |-> NoValue, v |-> v]

\* Variant: the return type is T, so the move constructor runs inside.
possess_value_by_value(t, v) ==
    IF is_integral(t) \/ is_floating_point(t) \/ is_pointer(t)
        THEN [kind |-> "prvalue", value |-> v, v |-> Held(0)]
    ELSE IF t.is_trivially_move_constructible
        THEN [kind |-> "prvalue", value |-> v, v |-> null_value(t, v).ref]
    ELSE IF t.is_move_constructible
        THEN [kind |-> "prvalue", value |-> v,
              v |-> IF t.user_move_ctor THEN Tag("moved_from") ELSE v]
    ELSE IF t.is_copy_constructible
        THEN [kind |-> "prvalue", value |-> v, v |-> null_value(t, v).ref]
    ELSE [kind |-> "void", value |-> NoValue, v |-> v]

\* possess_value( T& v ): the value category and value of the result, and
\* the state v is left in.  The return type is decltype(auto): `return value;`
\* and std::exchange give a T, `return std::move( v );` gives a T&& that
\* refers to v.
possess_value(t, v) ==
    IF is_integral(t) \/ is_floating_point(t) \/ is_pointer(t)
        THEN [kind |-> "prvalue", value |-> v, v |-> Held(0)]
    ELSE IF t.is_trivially_move_constructible
        THEN [kind |-> "prvalue", value |-> v, v |-> null_value(t, v).ref]
    ELSE IF t.is_move_constructible
        THEN [kind |-> "xvalue", value |-> NoValue, v |-> v]
    ELSE IF t.is_copy_constructible
        THEN [kind |-> "prvalue", value |-> v, v |-> null_value(t, v).ref]
    ELSE [kind |-> "void", value |-> NoValue, v |-> v]

\* concept Possessable = !is_void_v< decltype( possess_value( declval<T&>() ) ) >
Possessable(t) == ~(possess_value(t, NoValue).kind = "void")

NoOut == [kind |-> "none", value |-> NoValue, mech |-> "none"]

InitValue ==
    /\ tp \in TypeTraits
    /\ val \in ValuesOf(tp)
    /\ prior = val
    /\ lastOp = "none"
    /\ out = NoOut
    /\ dest = NoValue
    /\ moveCtorCalls = 0

\* The caller runs null_value( val ).
NullValue ==
    LET r == null_value(tp, val) IN
    /\ lastOp' = "null_value"
    /\ prior' = val
    /\ val' = r.ref
    /\ out' = [kind |-> IF r.ret = "void" THEN "void" ELSE "bool",
               value |-> Tag(r.ret), mech |-> r.mech]
    /\ dest' = NoValue
    /\ moveCtorCalls' = 0
    /\ UNCHANGED <<tp, staticVars, evalVars>>

\* The caller evaluates possess_value( val ).
PossessValue ==
    LET r == possess_value(tp, val) IN
    /\ lastOp' = "possess_value"
    /\ prior' = val
    /\ val' = r.v
    /\ out' = [kind |-> r.kind, value |-> r.value, mech |-> "none"]
    /\ dest' = NoValue
    /\ moveCtorCalls' = 0
    /\ UNCHANGED <<tp, staticVars, evalVars>>

\* The caller initializes a T from the T&& that possess_value returned
\* ( T x = possess_value( v ); ).  Overload resolution picks T's move
\* constructor when it has one, otherwise its copy constructor.
ConstructFromResult ==
    /\ lastOp = "possess_value"
    /\ out.kind = "xvalue"
    /\ lastOp' = "construct"
    /\ dest' = val
    /\ IF tp.user_move_ctor
          THEN val' = Tag("moved_from") /\ moveCtorCalls' = moveCtorCalls + 1
          ELSE UNCHANGED <<val, moveCtorCalls>>
    /\ UNCHANGED <<tp, prior, out, staticVars, evalVars>>

NextValue ==
    \/ NullValue
    \/ PossessValue
    \/ ConstructFromResult


-----------------------------------------------------------------------------
(* Compile-time evaluability and series generation                         *)

\* A zero-argument callable of closure type F: whether F{} is well-formed
\* (no captures), whether F{}() is a constant expression, and what it yields.
Callables ==
    [default_constructible : BOOLEAN, constant_evaluable : BOOLEAN,
     result : {"true", "false", "void"}]

\* std::enable_if_t< F{}(), int > names a type only when F{}() is a constant
\* expression of value true; otherwise substitution fails.
enable_if_call(F) ==
    /\ F.default_constructible
    /\ F.constant_evaluable
    /\ F.result = "true"

\* is_constexpr( F ) is chosen when its template parameters can be formed,
\* is_constexpr( ... ) otherwise.
is_constexpr(F) == IF enable_if_call(F) THEN TRUE ELSE FALSE

\* std::make_integer_sequence< decltype( N ), N >
make_integer_sequence(n) == [i \in 1 .. n |-> i - 1]

\* impl::make_expanded_series: std::array{ f( I )... }.  The elements of a
\* braced list are evaluated left to right.  With an empty pack the
\* expression is std::array{}, whose template arguments cannot be deduced.
impl_make_expanded_series(f, I) ==
    IF I = << >>
        THEN [status |-> "ill_formed", arr |-> << >>, calls |-> << >>]
        ELSE [status |-> "ok", arr |-> [i \in 1 .. Len(I) |-> f[I[i]]], calls |-> I]

make_expanded_series(n, f) == impl_make_expanded_series(f, make_integer_sequence(n))

NoRes == [op |-> "none", status |-> "none", flag |-> FALSE, arr |-> << >>]

InitEval ==
    /\ fn \in Callables
    /\ gen \in [0 .. MaxN - 1 -> 0 .. MaxVal]
    /\ N \in 0 .. MaxN
    /\ res = NoRes
    /\ calls = << >>

IsConstexpr ==
    /\ res' = [op |-> "is_constexpr", status |-> "ok", flag |-> is_constexpr(fn), arr |-> << >>]
    /\ calls' = << >>
    /\ UNCHANGED <<fn, gen, N, staticVars, valueVars>>

MakeExpandedSeries ==
    LET r == make_expanded_series(N, gen) IN
    /\ res' = [op |-> "make_expanded_series", status |-> r.status, flag |-> FALSE, arr |-> r.arr]
    /\ calls' = r.calls
    /\ UNCHANGED <<fn, gen, N, staticVars, valueVars>>

NextEval ==
    \/ IsConstexpr
    \/ MakeExpandedSeries

-----------------------------------------------------------------------------
(* Specifications                                                          *)

IdleStatic ==
    /\ phase = "exited"
    /\ deferred = FALSE
    /\ initState = [k \in Keys |-> "zeroed"]
    /\ ctorCount = [k \in Keys |-> 0]
    /\ ret = [t \in Threads |-> NoRet]

IdleValue ==
    /\ tp = ScalarType("integral")
    /\ val = Held(0)
    /\ prior = Held(0)
    /\ lastOp = "none"
    /\ out = NoOut
    /\ dest = NoValue
    /\ moveCtorCalls = 0

IdleEval ==
    /\ fn = [default_constructible |-> TRUE, constant_evaluable |-> TRUE, result |-> "true"]
    /\ gen = [i \in 0 .. MaxN - 1 |-> 0]
    /\ N = 0
    /\ res = NoRes
    /\ calls = << >>

InitS == InitStatic /\ IdleValue /\ IdleEval

SpecStatic == InitS /\ [][NextStatic]_vars

InitV == IdleStatic /\ InitValue /\ IdleEval

SpecValue == InitV /\ [][NextValue]_vars

InitE == IdleStatic /\ IdleValue /\ InitEval

SpecEval == InitE /\ [][NextEval]_vars


-----------------------------------------------------------------------------
(* Properties of the static allocator (checked under SpecStatic)           *)

Asked(t) == ret[t] # NoRet

\* C1: any two requests, by any callers and in any order, return the same
\* storage exactly when they name the same (T, params) key; make_default<T>
\* is the request with the empty parameter list.
C1_OneStoragePerKey ==
    \A t1, t2 \in Threads :
        Asked(t1) /\ Asked(t2) =>
            ((ret[t1].key = ret[t2].key) <=> (ret[t1].addr = ret[t2].addr))

C1_Witness ==
    \E t1, t2 \in Threads :
        /\ t1 # t2
        /\ Asked(t1) /\ Asked(t2)
        /\ ret[t1].key = ret[t2].key
        /\ ret[t1].phase = "startup" /\ ret[t2].phase = "main"
        /\ ret[t1].key[2] # << >>

RequestStep(k) == \E t \in Threads : ret'[t] # ret[t] /\ ret'[t].key = k

-----------------------------------------------------------------------------
(* Properties of null_value and possess_value (checked under SpecValue)    *)

Assignable(t) == t.is_move_assignable \/ t.is_copy_assignable

\* The assignment fallbacks in their order of preference.
FallbackArg   == <<"void", "nullptr_t", "nullopt_t", "int8_t", "uint8_t">>
FallbackState == <<"T()", "T(nullptr)", "T(nullopt)", "T(int8_t 0)", "T(uint8_t 0)">>
FallbackMech  == <<"assign_T()", "assign_T(nullptr)", "assign_T(nullopt)",
                   "assign_T(int8_t 0)", "assign_T(uint8_t 0)">>

\* C4: null_value applies the single mechanism its priority selects:
\* arithmetic -> 0, pointer -> null, reset(), clear(), then assignment from
\* the first supported construction; it returns true whenever it applied one,
\* and a type with reset() or clear() never takes an assignment fallback.
C4_NullValuePriority ==
    lastOp = "null_value" =>
        LET supported == { i \in 1 .. 5 : FallbackArg[i] \in tp.ctors }
            plain     == tp.kind = "class" /\ ~tp.CustomResettable /\ ~tp.CustomClearable
        IN
        /\ is_arithmetic(tp) => out.mech = "assign_zero" /\ val = Held(0)
        /\ is_pointer(tp) => out.mech = "assign_nullptr" /\ val = Held(0)
        /\ tp.kind = "class" /\ tp.CustomResettable =>
              out.mech = "reset" /\ val = Tag("reset")
        /\ tp.kind = "class" /\ ~tp.CustomResettable /\ tp.CustomClearable =>
              out.mech = "clear" /\ val = Tag("clear")
        /\ plain /\ Assignable(tp) /\ supported # {} =>
              \E i \in supported :
                  /\ \A j \in supported : i <= j
                  /\ out.mech = FallbackMech[i]
                  /\ val = Tag(FallbackState[i])
        /\ out.mech # "none" => out.kind = "bool" /\ out.value = Tag("true")
        /\ tp.CustomResettable \/ tp.CustomClearable => out.mech \in {"reset", "clear"}

C4_Witness ==
    /\ lastOp = "null_value"
    /\ tp.kind = "class" /\ tp.CustomResettable /\ tp.CustomClearable
    /\ tp.ctors = CtorArgs /\ Assignable(tp)
    /\ prior = Held(1)
    /\ val = Tag("reset")

\* C5: for an integral, floating-point or pointer variable holding x,
\* possess_value returns x by value and leaves the variable zero / null.
C5_ScalarExchange ==
    lastOp = "possess_value" /\ tp.kind \in {"integral", "floating", "pointer"} =>
        /\ out.kind = "prvalue"
        /\ out.value = prior
        /\ val = Held(0)

C5_Witness ==
    /\ lastOp = "possess_value"
    /\ tp.kind = "pointer"
    /\ prior = Held(MaxVal)
    /\ out.value = Held(MaxVal)
    /\ val = Held(0)

\* C6: for a class type taking the trivially-move-constructible branch, or
\* one that is only copy constructible, possess_value returns the prior value
\* and leaves the source in a nulled state, no longer holding its value.
C6_Original ==
    (/\ lastOp = "possess_value"
     /\ tp.kind = "class"
     /\ \/ tp.is_trivially_move_constructible
        \/ ~tp.is_move_constructible /\ tp.is_copy_constructible)
    =>
        /\ out.kind = "prvalue"
        /\ out.value = prior
        /\ val.st # "held"

SupportsSomeMechanism(t) ==
    \/ is_arithmetic(t)
    \/ is_pointer(t)
    \/ t.CustomResettable
    \/ t.CustomClearable
    \/ Assignable(t) /\ t.ctors # {}

\* C10: Nullable<T> holds exactly when null_value applies a mechanism to a T
\* and returns true; for a type supporting none of the mechanisms Nullable<T>
\* is false and null_value leaves the value as it was.
C10_NullableIffApplied ==
    lastOp = "null_value" =>
        /\ Nullable(tp) <=> (out.mech # "none" /\ out.value = Tag("true"))
        /\ Nullable(tp) <=> SupportsSomeMechanism(tp)
        /\ ~SupportsSomeMechanism(tp) => val = prior /\ out.kind = "void"

C10_Witness ==
    /\ lastOp = "null_value"
    /\ ~Nullable(tp)
    /\ tp.ctors # {}
    /\ val = prior
    /\ out.kind = "void"

-----------------------------------------------------------------------------
(* Properties of is_constexpr and make_expanded_series (under SpecEval)    *)

\* C8: is_constexpr( f ) is true for every callable whose invocation is
\* valid in constant evaluation, whatever it returns, and false for every
\* callable that performs a runtime-only operation.
C8_Original ==
    res.op = "is_constexpr" => (res.flag <=> fn.constant_evaluable)

\* C9: for every N >= 0, make_expanded_series<N>( f ) is a sequence of length
\* N whose element i is f( i ), f having been invoked once per index in index
\* order; for N = 0 it is the empty sequence.
C9_Original ==
    res.op = "make_expanded_series" =>
        /\ res.status = "ok"
        /\ Len(res.arr) = N
        /\ \A i \in 0 .. N - 1 : res.arr[i + 1] = gen[i]
        /\ calls = [i \in 1 .. N |-> i - 1]

=============================================================================
